---- MODULE Spec2Model ----
(***************************************************************************)
(* Luma chatbot backend: the chat orchestrator (services.py), its HTTP     *)
(* endpoint (api.py), the lazily loaded configuration (config.py), the     *)
(* import-time retriever index (rag/retriever.py), the offline index       *)
(* builder (rag/kb_builder.py) and the process boot (main.py).             *)
(*                                                                         *)
(* A text is a sequence of tokens; a token is a word or one whitespace     *)
(* character, and Letters gives the characters of a token, so that         *)
(* Python's substring test, str.lower and str.strip are computed on        *)
(* characters and tokens as the interpreter computes them.                 *)
(***************************************************************************)
EXTENDS Integers, Sequences, FiniteSets, TLC

VARIABLES
    env,                \* names of the configuration values the environment provides
    kb_folder,          \* TRUE when the knowledge-base folder exists on disk
    kb_files,           \* the texts of the files in the folder, in listing order
    proc,               \* the server process: "init", "up", or "crashed: <cause>"
    kb_index,           \* the texts saved in rag/kb_index.json, <<>> while there is no file
    kb_texts,           \* rag.retriever.kb_texts, built when the module is imported
    service,            \* the lru_cache of get_chat_service: "unbuilt" | "ready" | "noclient"
    inflight,           \* chat requests between their dependencies and the handler body
    CHAT_HISTORY_CACHE, \* services.CHAT_HISTORY_CACHE: session id -> list of turns
    last,               \* the request handled last and the answer it got
    answered            \* history variable: the chat requests answered 200, in order

vars ==
    <<env, kb_folder, kb_files, kb_index, proc, kb_texts, service, inflight,
      CHAT_HISTORY_CACHE, last, answered>>

----------------------------------------------------------------------------
(* Bounds of the model.                                                    *)

\* turns stored over all sessions: a completion is generated while two more fit
MaxTurns == 4
\* files in the knowledge-base folder
MaxDocs == 1
\* chat requests in flight at one time
MaxInFlight == 2
\* words of a message handed to the keyword classifier alone
MaxWords == 2

----------------------------------------------------------------------------
(* Texts.                                                                  *)

Letters ==
    [t \in {"yes", "ok", "sure", "no", "not", "really", "job", "deadline", "work",
            "exam", "Exam", "study", "sad", "lonely", "know", "book", "hello",
            " ", "\n"} |->
        CASE t = "yes"      -> <<"y", "e", "s">>
          [] t = "ok"       -> <<"o", "k">>
          [] t = "sure"     -> <<"s", "u", "r", "e">>
          [] t = "no"       -> <<"n", "o">>
          [] t = "not"      -> <<"n", "o", "t">>
          [] t = "really"   -> <<"r", "e", "a", "l", "l", "y">>
          [] t = "job"      -> <<"j", "o", "b">>
          [] t = "deadline" -> <<"d", "e", "a", "d", "l", "i", "n", "e">>
          [] t = "work"     -> <<"w", "o", "r", "k">>
          [] t = "exam"     -> <<"e", "x", "a", "m">>
          [] t = "Exam"     -> <<"E", "x", "a", "m">>
          [] t = "study"    -> <<"s", "t", "u", "d", "y">>
          [] t = "sad"      -> <<"s", "a", "d">>
          [] t = "lonely"   -> <<"l", "o", "n", "e", "l", "y">>
          [] t = "know"     -> <<"k", "n", "o", "w">>
          [] t = "book"     -> <<"b", "o", "o", "k">>
          [] t = "hello"    -> <<"h", "e", "l", "l", "o">>
          [] t = " "        -> <<" ">>
          [] t = "\n"       -> <<"\n">>]

Words == DOMAIN Letters \ {" ", "\n"}

Whitespace == {" ", "\n"}

RECURSIVE Chars(_)
\* the characters of a text
Chars(text) ==
    IF text = <<>> THEN <<>> ELSE Letters[Head(text)] \o Chars(Tail(text))

\* str.lower on one character
LowerChar(c) == IF c = "E" THEN "e" ELSE c

\* str.lower
Lower(chars) == [i \in 1..Len(chars) |-> LowerChar(chars[i])]

\* Python's `sub in s` on strings
Contains(sub, s) ==
    \E i \in 0..(Len(s) - Len(sub)) : SubSeq(s, i + 1, i + Len(sub)) = sub

RECURSIVE LStrip(_)
LStrip(text) ==
    IF text # <<>> /\ Head(text) \in Whitespace THEN LStrip(Tail(text)) ELSE text

RECURSIVE RStrip(_)
RStrip(text) ==
    IF text # <<>> /\ text[Len(text)] \in Whitespace
    THEN RStrip(SubSeq(text, 1, Len(text) - 1))
    ELSE text

\* str.strip
Strip(text) == RStrip(LStrip(text))

----------------------------------------------------------------------------
(* The keyword classifier and the lookup table (services.py).              *)

Kw(word) == Letters[word]

\* the chain of keyword tests of _mock_rasa_nlu, on the lower-cased message
KeywordIntent(message_lower) ==
    LET has(w) == Contains(w, message_lower)
    IN  IF has(Kw("yes")) \/ has(Kw("ok")) \/ has(Kw("sure")) THEN "affirm"
        ELSE IF has(Kw("no")) \/ has(Kw("not") \o <<" ">> \o Kw("really")) THEN "deny"
        ELSE IF has(Kw("job")) \/ has(Kw("deadline")) \/ has(Kw("work")) THEN "work_stress"
        ELSE IF has(Kw("exam")) \/ has(Kw("study")) THEN "study_anxiety"
        ELSE IF has(Kw("sad")) \/ has(Kw("lonely")) THEN "feeling_depressed"
        ELSE "general_greeting"

_mock_rasa_nlu(message) ==
    [intent |-> [name |-> KeywordIntent(Lower(Chars(message)))], entities |-> <<>>]

\* the keys of rag_db
RagDbKeys ==
    {"work_stress", "study_anxiety", "feeling_depressed", "general_greeting", "affirm", "deny"}

\* rag_db[intent]; each text is named by its opening and technique
rag_db(intent) ==
    CASE intent = "work_stress"       -> "Retrieved technique: 5-4-3-2-1 grounding"
      [] intent = "study_anxiety"     -> "Retrieved tip: Pomodoro Technique"
      [] intent = "feeling_depressed" -> "Retrieved affirmation: okay to not be okay"
      [] intent = "general_greeting"  -> "Retrieved context: be warm and welcoming"
      [] intent = "affirm"            -> "Retrieved context: the user agreed"
      [] intent = "deny"              -> "Retrieved context: the user declined"

_mock_rag_retriever(intent) ==
    IF intent \in RagDbKeys
    THEN rag_db(intent)
    ELSE "Retrieved context: acknowledge and respond empathetically"

----------------------------------------------------------------------------
(* Configuration (config.py) and the retriever's index (rag/retriever.py). *)

\* the fields of Settings: each is a str with no default, so each is required
RequiredKeys ==
    {"AZURE_OPENAI_ENDPOINT", "AZURE_OPENAI_KEY", "AZURE_API_VERSION",
     "AZURE_OPENAI_DEPLOYMENT_NAME"}

\* Settings(): built from the environment, or pydantic's ValidationError
get_settings(e) == IF RequiredKeys \subseteq e THEN "Settings" ELSE "ValidationError"

\* the text of the i-th file of the knowledge base
DocText(i) == "kb document " \o ToString(i)

\* build_index(), run by `index, kb_texts, kb_paths = build_index()` when
\* rag.retriever is imported: os.listdir raises on a missing folder, and
\* embeddings.shape[1] raises on the 1-dimensional empty array that encoding
\* no text gives
build_index(folder, files) ==
    IF ~folder THEN [raised |-> "FileNotFoundError", kb_texts |-> <<>>]
    ELSE IF files = <<>> THEN [raised |-> "IndexError", kb_texts |-> <<>>]
    ELSE [raised |-> "none", kb_texts |-> files]

\* kb_builder.load_kb_texts(): creates the folder when it is missing and returns
\* no text; otherwise the stripped, non-empty contents of the .txt files (the
\* files of the model are .txt files whose content is their text)
load_kb_texts(folder, files) ==
    IF ~folder THEN [kb_folder |-> TRUE, kb_texts |-> <<>>]
    ELSE [kb_folder |-> TRUE, kb_texts |-> files]

\* retrieve_relevant(user_query): nearest is the position of the closest stored
\* vector (the embedding model decides it), 0 when the call raises. With top_k = 2
\* the result holds two texts: the closest and the second closest, or, with one
\* stored vector, the closest and kb_texts[-1], which is the same text. The
\* caller reads docs[1] alone, so the second text stands for any other one
retrieve_relevant(texts, nearest) ==
    IF nearest = 0 THEN [raised |-> TRUE, docs |-> <<>>]
    ELSE [raised |-> FALSE,
          docs |-> <<texts[nearest], texts[IF Len(texts) > 1 THEN (nearest % Len(texts)) + 1
                                            ELSE Len(texts)]>>]

----------------------------------------------------------------------------
(* Requests and the outcomes of the external calls.                        *)

ChatMessages == {<<"know", " ", "exam">>, <<"sad">>}

\* ChatRequest: message, and session_id unless absent (None)
Requests ==
    {[message |-> m] : m \in ChatMessages}
    \cup {[message |-> <<"sad">>, session_id |-> ""],
          [message |-> <<"know", " ", "exam">>, session_id |-> "s1"]}

Anonymous(request) == "session_id" \notin DOMAIN request

\* analyze_text: the label the classifier gives, or the call raises
NluOutcomes == {"<raises>", "joy"}

\* chat.completions.create: raises OpenAIError, or returns a completion whose
\* message content is None or a text
GenOutcomes ==
    {[kind |-> "OpenAIError", content |-> <<>>], [kind |-> "None", content |-> <<>>]}
    \cup {[kind |-> "content", content |-> <<" ", "ok", "\n">>]}

----------------------------------------------------------------------------
(* The orchestrator (services.py).                                         *)

Turn(role, content) == [role |-> role, content |-> content]

SYSTEM_PROMPT == <<"You are 'Luma'">>

MutSessionId(request) ==
    IF "session_id" \in DOMAIN request /\ request.session_id # ""
    THEN request.session_id
    ELSE "session of " \o request.message[1]

\* request.session_id or "default_session": None and "" are both falsy
SessionId(request) ==
    IF "session_id" \in DOMAIN request /\ request.session_id # ""
    THEN request.session_id
    ELSE "default_session"

MutLoadHistory(cache, session_id) == <<>>

\* CHAT_HISTORY_CACHE.get(session_id, [])
LoadHistory(cache, session_id) ==
    IF session_id \in DOMAIN cache THEN cache[session_id] ELSE <<>>

\* the content of the prompt's last turn: the message with its annotations
Annotated(message, intent, context) ==
    <<"User Message:">> \o message
        \o <<"--- (Internal info) ---", "User Intent:", intent,
             "Retrieved Context:", context, "--- (End info) ---", "Your response:">>

MutBuildPrompt(message, intent, context, history) ==
    <<Turn("system", SYSTEM_PROMPT), Turn("user", Annotated(message, intent, context))>>

_build_llm_prompt(message, intent, context, history) ==
    <<Turn("system", SYSTEM_PROMPT)>> \o history
        \o <<Turn("user", Annotated(message, intent, context))>>

MutAppendTurns(history, prompt, message, llm_response) ==
    Append(Append(history, prompt[Len(prompt)]), Turn("assistant", llm_response))

\* the two history.append calls
AppendTurns(history, prompt, message, llm_response) ==
    Append(Append(history, Turn("user", message)), Turn("assistant", llm_response))

MutStoreHistory(cache, session_id, history) ==
    [k \in {session_id} |-> history]

\* CHAT_HISTORY_CACHE[session_id] = history
StoreHistory(cache, session_id, history) ==
    [k \in DOMAIN cache \cup {session_id} |-> IF k = session_id THEN history ELSE cache[k]]

MutClassify(message, nluOut) ==
    IF nluOut = "<raises>" THEN "unknown" ELSE nluOut

\* step 2: the intent analyze_text gives, or the keyword fallback when it raises
Classify(message, nluOut) ==
    IF nluOut = "<raises>" THEN _mock_rasa_nlu(message).intent.name ELSE nluOut

\* step 3: the closest document, or the lookup table when none was retrieved or
\* the retriever raised
RetrieveContext(texts, nearest, intent) ==
    LET r == retrieve_relevant(texts, nearest)
    IN  IF ~r.raised /\ r.docs # <<>> THEN r.docs[1] ELSE _mock_rag_retriever(intent)

MutGenerate(cache, session_id, history, prompt, message, genOut) ==
    CASE genOut.kind = "OpenAIError" ->
            [raised |-> "OpenAIError", response |-> <<>>,
             cache |-> StoreHistory(cache, session_id, Append(history, Turn("user", message)))]
      [] genOut.kind = "None" -> [raised |-> "AttributeError", response |-> <<>>, cache |-> cache]
      [] OTHER ->
            LET llm_response == Strip(genOut.content)
            IN  [raised |-> "none", response |-> llm_response,
                 cache |-> StoreHistory(cache, session_id,
                                        AppendTurns(history, prompt, message, llm_response))]

\* steps 5 and 6: the completion call, and on success the history update
Generate(cache, session_id, history, prompt, message, genOut) ==
    CASE genOut.kind = "OpenAIError" ->
            [raised |-> "OpenAIError", response |-> <<>>, cache |-> cache]
      [] genOut.kind = "None" -> [raised |-> "AttributeError", response |-> <<>>, cache |-> cache]
      [] OTHER ->
            LET llm_response == Strip(genOut.content)
            IN  [raised |-> "none", response |-> llm_response,
                 cache |-> StoreHistory(cache, session_id,
                                        AppendTurns(history, prompt, message, llm_response))]

\* what get_chat_response raises or returns, and the cache it leaves
Outcome(intent, context, prompt, g) ==
    [raised |-> g.raised, response |-> g.response, intent |-> intent,
     context |-> context, prompt |-> prompt, cache |-> g.cache]

\* steps 5 and 6, on the prompt of step 4
CallModel(cache, session_id, history, message, intent, context, prompt, genOut) ==
    Outcome(intent, context, prompt,
            Generate(cache, session_id, history, prompt, message, genOut))

\* steps 3 and 4, on the history of step 1 and the intent of step 2
RetrieveAndPrompt(cache, session_id, history, message, intent, context, genOut) ==
    CallModel(cache, session_id, history, message, intent, context,
              _build_llm_prompt(message, intent, context, history), genOut)

\* steps 1 to 3, on the resolved session id
Orchestrate(cache, texts, session_id, message, intent, nearest, genOut) ==
    RetrieveAndPrompt(cache, session_id, LoadHistory(cache, session_id), message, intent,
                      RetrieveContext(texts, nearest, intent), genOut)

\* ChatService.get_chat_response
get_chat_response(cache, client, texts, request, nluOut, nearest, genOut) ==
    IF ~client
    THEN [raised |-> "OpenAIError", response |-> <<>>, intent |-> "", context |-> "",
          prompt |-> <<>>, cache |-> cache]
    ELSE Orchestrate(cache, texts, SessionId(request), request.message,
                     Classify(request.message, nluOut), nearest, genOut)

\* handle_chat's mapping of what get_chat_response raised to the HTTP status
StatusOf(raised) ==
    CASE raised = "none" -> 200
      [] raised = "OpenAIError" -> 503
      [] OTHER -> 500

----------------------------------------------------------------------------
(* The process and its endpoints (main.py, api.py).                        *)

\* no request handled yet
NoRequest ==
    [endpoint |-> "none", request |-> [message |-> <<>>], status |-> 0,
     response |-> <<>>, intent |-> "", context |-> "", prompt |-> <<>>,
     service |-> "none", nlu |-> "not_called", nearest |-> -1, gen |-> "not_called"]

RECURSIVE SumTurns(_, _)
SumTurns(cache, keys) ==
    IF keys = {} THEN 0
    ELSE LET k == CHOOSE x \in keys : TRUE
         IN  Len(cache[k]) + SumTurns(cache, keys \ {k})

\* the turns stored over all sessions
TotalTurns(cache) == SumTurns(cache, DOMAIN cache)

\* no chat request in flight. building: requests inside get_chat_service after
\* a miss of its lru_cache; ready, noclient: requests whose dependencies are
\* resolved, by the ChatService each was given (client built, client None)
NoneInFlight == [building |-> 0, ready |-> 0, noclient |-> 0]

InFlight(f) == f.building + f.ready + f.noclient

Init ==
    /\ env \in SUBSET RequiredKeys
    /\ kb_folder \in BOOLEAN
    /\ kb_files \in {[i \in 1..n |-> DocText(i)] : n \in 0..MaxDocs}
    /\ ~kb_folder => kb_files = <<>>
    /\ kb_index = <<>>
    /\ proc = "init"
    /\ kb_texts = <<>>
    /\ service = "unbuilt"
    /\ inflight = NoneInFlight
    /\ CHAT_HISTORY_CACHE = <<>>
    /\ last = NoRequest
    /\ answered = <<>>

\* `python rag/kb_builder.py`, the offline script (no module of the server
\* imports it): build_index() calls load_kb_texts(), which creates a missing
\* folder; with no text it returns before anything is saved, otherwise
\* save_index() writes the texts to rag/kb_index.json
kb_builder_build_index ==
    /\ \E loaded \in {load_kb_texts(kb_folder, kb_files)} :
        /\ kb_folder' = loaded.kb_folder
        /\ kb_index' = IF loaded.kb_texts = <<>> THEN kb_index ELSE loaded.kb_texts
    /\ UNCHANGED <<env, kb_files, proc, kb_texts, service, inflight,
                   CHAT_HISTORY_CACHE, last, answered>>

\* `uvicorn main:app`: main imports api, api imports services, and services
\* imports nlu.intent_emotion (which loads its two pipelines) and rag.retriever
\* (which loads its encoder and builds the index); an exception in either import
\* ends the process before it listens. No import reads the configuration.
Boot ==
    /\ proc = "init"
    /\ \E modelsLoad \in BOOLEAN :
        LET built == build_index(kb_folder, kb_files)
        IN  IF ~modelsLoad
            THEN proc' = "crashed: model not loaded" /\ kb_texts' = <<>>
            ELSE IF built.raised # "none"
            THEN proc' = "crashed: " \o built.raised /\ kb_texts' = <<>>
            ELSE proc' = "up" /\ kb_texts' = built.kb_texts
    /\ UNCHANGED <<env, kb_folder, kb_files, kb_index, service, inflight,
                   CHAT_HISTORY_CACHE, last, answered>>

\* GET /
root ==
    /\ proc = "up"
    /\ last' = [NoRequest EXCEPT !.endpoint = "GET /", !.status = 200]
    /\ UNCHANGED <<env, kb_folder, kb_files, kb_index, proc, kb_texts, service, inflight,
                   CHAT_HISTORY_CACHE, answered>>

\* POST /api/v1/chat with a body that is not JSON: the framework decodes the
\* body before it resolves any dependency and answers 422; get_settings and
\* get_chat_service are not called, whatever the configuration is
reject_malformed_body ==
    /\ proc = "up"
    /\ last' = [NoRequest EXCEPT !.endpoint = "POST /api/v1/chat", !.status = 422]
    /\ UNCHANGED <<env, kb_folder, kb_files, kb_index, proc, kb_texts, service, inflight,
                   CHAT_HISTORY_CACHE, answered>>

\* POST /api/v1/chat with a body that is JSON, when Depends(get_settings)
\* raises: the exception leaves the dependency resolution, outside
\* handle_chat's try, and the server answers 500, be the body a ChatRequest
\* (as here) or not
handle_chat_no_settings(request) ==
    /\ proc = "up"
    /\ get_settings(env) = "ValidationError"
    /\ last' = [NoRequest EXCEPT !.endpoint = "POST /api/v1/chat", !.request = request,
                                 !.status = 500]
    /\ UNCHANGED <<env, kb_folder, kb_files, kb_index, proc, kb_texts, service, inflight,
                   CHAT_HISTORY_CACHE, answered>>

\* POST /api/v1/chat, dependency resolution: get_settings and get_chat_service
\* are plain functions, each run in a worker thread and awaited. Here the
\* lru_cache of get_chat_service holds the ChatService and the request gets it;
\* the request then waits for the event loop to run the handler
get_chat_service_hit ==
    /\ proc = "up"
    /\ get_settings(env) = "Settings"
    /\ service # "unbuilt"
    /\ InFlight(inflight) < MaxInFlight
    /\ inflight' = [inflight EXCEPT ![service] = @ + 1]
    /\ UNCHANGED <<env, kb_folder, kb_files, kb_index, proc, kb_texts, service,
                   CHAT_HISTORY_CACHE, last, answered>>

\* the same when the lru_cache is empty: the worker thread enters
\* get_chat_service; until it returns, other requests miss the cache as well
get_chat_service_miss ==
    /\ proc = "up"
    /\ get_settings(env) = "Settings"
    /\ service = "unbuilt"
    /\ InFlight(inflight) < MaxInFlight
    /\ inflight' = [inflight EXCEPT !.building = @ + 1]
    /\ UNCHANGED <<env, kb_folder, kb_files, kb_index, proc, kb_texts, service,
                   CHAT_HISTORY_CACHE, last, answered>>

\* get_chat_service returns the ChatService it built (client None when
\* AzureOpenAI raised) to its request; the lru_cache keeps it unless another
\* thread stored one during the call
get_chat_service_build(clientBuilt) ==
    /\ inflight.building > 0
    /\ LET built == IF clientBuilt THEN "ready" ELSE "noclient"
       IN  /\ inflight' = [inflight EXCEPT !.building = @ - 1, ![built] = @ + 1]
           /\ service' = IF service = "unbuilt" THEN built ELSE service
    /\ UNCHANGED <<env, kb_folder, kb_files, kb_index, proc, kb_texts,
                   CHAT_HISTORY_CACHE, last, answered>>

\* a request whose dependencies are resolved and whose body is JSON and no
\* ChatRequest: answered 422, and handle_chat is not called
reject_invalid_body(held) ==
    /\ inflight[held] > 0
    /\ inflight' = [inflight EXCEPT ![held] = @ - 1]
    /\ last' = [NoRequest EXCEPT !.endpoint = "POST /api/v1/chat", !.status = 422,
                                 !.service = held]
    /\ UNCHANGED <<env, kb_folder, kb_files, kb_index, proc, kb_texts, service,
                   CHAT_HISTORY_CACHE, answered>>

\* handle_chat, called with the request and the ChatService the request holds:
\* it runs get_chat_response to its end, for the coroutine holds no await, so
\* the event loop runs no other request in between
handle_chat(held, request, nluOut, nearest, genOut) ==
    /\ inflight[held] > 0
    /\ genOut.kind = "content" => TotalTurns(CHAT_HISTORY_CACHE) + 2 <= MaxTurns
    \* without a client no external call is made: their outcomes are not drawn
    /\ held = "noclient" =>
            nluOut = "<raises>" /\ nearest = 0 /\ genOut.kind = "OpenAIError"
    /\ inflight' = [inflight EXCEPT ![held] = @ - 1]
    /\ \E r \in {get_chat_response(CHAT_HISTORY_CACHE, held = "ready", kb_texts,
                                     request, nluOut, nearest, genOut)} :
       LET client == held = "ready"
           status == StatusOf(r.raised)
       IN  /\ CHAT_HISTORY_CACHE' = r.cache
           /\ last' = [endpoint |-> "POST /api/v1/chat", request |-> request,
                       status |-> status, response |-> r.response,
                       intent |-> r.intent, context |-> r.context, prompt |-> r.prompt,
                       service |-> held,
                       nlu |-> IF client THEN nluOut ELSE "not_called",
                       nearest |-> IF client THEN nearest ELSE -1,
                       gen |-> IF client THEN genOut.kind ELSE "not_called"]
           /\ answered' = IF status = 200
                          THEN Append(answered, [request |-> request, response |-> r.response])
                          ELSE answered
    /\ UNCHANGED <<env, kb_folder, kb_files, kb_index, proc, kb_texts, service>>

Next ==
    \/ kb_builder_build_index
    \/ Boot
    \/ root
    \/ reject_malformed_body
    \/ \E request \in Requests : handle_chat_no_settings(request)
    \/ get_chat_service_hit
    \/ get_chat_service_miss
    \/ \E clientBuilt \in BOOLEAN : get_chat_service_build(clientBuilt)
    \/ \E held \in {"ready", "noclient"} : reject_invalid_body(held)
    \/ \E held \in {"ready", "noclient"}, request \in Requests, nluOut \in NluOutcomes,
          nearest \in 0..Len(kb_texts), genOut \in GenOutcomes :
            handle_chat(held, request, nluOut, nearest, genOut)

Spec == Init /\ [][Next]_vars

----------------------------------------------------------------------------
(* The keyword classifier alone, on every message of up to MaxWords words. *)

RECURSIVE JoinWords(_)
\* " ".join(words)
JoinWords(ws) ==
    IF Len(ws) <= 1 THEN ws ELSE <<Head(ws), " ">> \o JoinWords(Tail(ws))

NluMessages ==
    {JoinWords(ws) : ws \in UNION {[1..n -> Words] : n \in 1..MaxWords}}

NluInit ==
    /\ env = RequiredKeys
    /\ kb_folder = TRUE
    /\ kb_files = <<DocText(1)>>
    /\ kb_index = <<>>
    /\ proc = "up"
    /\ kb_texts = kb_files
    /\ service = "ready"
    /\ inflight = NoneInFlight
    /\ CHAT_HISTORY_CACHE = <<>>
    /\ \E m \in NluMessages : last = [NoRequest EXCEPT !.request = [message |-> m]]
    /\ answered = <<>>

\* the except branch of step 2: analyze_text raised on the message
nlu_fallback ==
    /\ last.intent = ""
    /\ last' = [last EXCEPT !.nlu = "<raises>",
                            !.intent = Classify(last.request.message, "<raises>")]
    /\ UNCHANGED <<env, kb_folder, kb_files, kb_index, proc, kb_texts, service, inflight,
                   CHAT_HISTORY_CACHE, answered>>

NluNext == nlu_fallback

NluSpec == NluInit /\ [][NluNext]_vars

----------------------------------------------------------------------------
(* What the statements below speak of.                                     *)

ChatEndpoint == "POST /api/v1/chat"

\* the last request was a chat request that reached the prompt assembly
Handled == last.endpoint = ChatEndpoint /\ last.prompt # <<>>

\* the history the last request saw: its prompt between the system turn and
\* the annotated user turn
SeenHistory == SubSeq(last.prompt, 2, Len(last.prompt) - 1)

\* the chat requests answered 200 before the last request
Earlier ==
    IF last.endpoint = ChatEndpoint /\ last.status = 200
    THEN SubSeq(answered, 1, Len(answered) - 1)
    ELSE answered

\* the session a request belongs to, an absent id standing for the constant
StatedSession(request) ==
    IF "session_id" \in DOMAIN request THEN request.session_id ELSE "default_session"

\* the same, an empty id standing for the constant too
EffectiveSession(request) ==
    IF StatedSession(request) = "" THEN "default_session" ELSE StatedSession(request)

TurnsOfCall(call) ==
    <<Turn("user", call.request.message), Turn("assistant", call.response)>>

RECURSIVE TurnsOfCalls(_)
\* the turns of a sequence of answered calls, in order
TurnsOfCalls(calls) ==
    IF calls = <<>> THEN <<>> ELSE TurnsOfCall(Head(calls)) \o TurnsOfCalls(Tail(calls))

StoredHistory(sid) ==
    IF sid \in DOMAIN CHAT_HISTORY_CACHE THEN CHAT_HISTORY_CACHE[sid] ELSE <<>>

----------------------------------------------------------------------------

\* C1 (as amended): a call of session S, where an absent or empty session id
\* stands for "default_session", sees as its history exactly the turns appended
\* by the earlier successful calls of session S, in order, and no other turn.
C1_SessionHistory ==
    Handled =>
        SeenHistory =
            TurnsOfCalls(SelectSeq(Earlier,
                LAMBDA c : EffectiveSession(c.request) = EffectiveSession(last.request)))

\* C1 witness: a call with a session id saw the two turns of its session while
\* another session's call had been answered too.
C1_Witness ==
    /\ Handled
    /\ "session_id" \in DOMAIN last.request
    /\ Len(SeenHistory) = 2
    /\ Len(Earlier) = 2

\* C1 (as stated): a call with session id S sees exactly the turns appended by
\* the earlier successful calls with session id S; no turn appended under another
\* session id appears in it.
C1_SessionIdHistory ==
    Handled =>
        SeenHistory =
            TurnsOfCalls(SelectSeq(Earlier,
                LAMBDA c : StatedSession(c.request) = StatedSession(last.request)))

\* C2: when the completion call raises OpenAIError, or the client of the
\* ChatService that handle_chat was called with was never initialised, the
\* request is answered 503 and the cache is what it was.
C2_GenerationFailure ==
    [][(/\ last' # last
        /\ last'.endpoint = ChatEndpoint
        /\ last'.status # 422
        /\ \/ last'.gen = "OpenAIError"
           \/ last'.service = "noclient")
       => (last'.status = 503 /\ CHAT_HISTORY_CACHE' = CHAT_HISTORY_CACHE)]_vars

\* C2 witness: a request of a session that has a history got 503 from a raising
\* completion call.
C2_Witness ==
    /\ last.endpoint = ChatEndpoint
    /\ last.gen = "OpenAIError"
    /\ last.status = 503
    /\ StoredHistory(EffectiveSession(last.request)) # <<>>

\* C3: a request answered 200 appends to its session's history the user turn of
\* the raw message and then the assistant turn of the reply, keeps the earlier
\* turns and every other session's history; any other step leaves the cache alone.
C3_AppendsTwoTurns ==
    [][LET sid == EffectiveSession(last'.request)
       IN  IF answered' # answered /\ last'.endpoint = ChatEndpoint /\ last'.status = 200
           THEN CHAT_HISTORY_CACHE' =
                    [k \in DOMAIN CHAT_HISTORY_CACHE \cup {sid} |->
                        IF k = sid
                        THEN StoredHistory(sid)
                                \o <<Turn("user", last'.request.message),
                                     Turn("assistant", last'.response)>>
                        ELSE CHAT_HISTORY_CACHE[k]]
           ELSE CHAT_HISTORY_CACHE' = CHAT_HISTORY_CACHE]_vars

\* C3 witness: a request was answered 200 while another session held a history.
C3_Witness ==
    /\ last.endpoint = ChatEndpoint
    /\ last.status = 200
    /\ \E k \in DOMAIN CHAT_HISTORY_CACHE : k # EffectiveSession(last.request)

\* C4 (as stated): with a required configuration value missing the process
\* fails at boot, so that no request to GET / or POST /api/v1/chat is answered.
C4_FailsAtBoot ==
    get_settings(env) = "ValidationError" => last.endpoint = "none"

\* C5 (as stated): with the knowledge-base folder missing or empty the retrieval
\* is empty, and a process whose models loaded serves: a chat request takes its
\* context from the lookup table and is answered.
C5_RetrieverFailureFallsBack ==
    ((~kb_folder \/ kb_files = <<>>) /\ proc \notin {"init", "crashed: model not loaded"}) =>
        /\ proc = "up"
        /\ Handled => last.context = _mock_rag_retriever(last.intent)

\* C6: when analyze_text or retrieve_relevant raises, the request goes on with
\* the keyword intent and the lookup-table context, and its status is decided by
\* the completion call alone: 200 for a text, 503 for OpenAIError (and 500 only
\* for a completion without content).
C6_FailuresNotSurfaced ==
    (last.endpoint = ChatEndpoint /\ (last.nlu = "<raises>" \/ last.nearest = 0)) =>
        /\ last.nlu = "<raises>" =>
                last.intent = _mock_rasa_nlu(last.request.message).intent.name
        /\ last.nearest = 0 => last.context = _mock_rag_retriever(last.intent)
        /\ last.status = CASE last.gen = "content" -> 200
                           [] last.gen = "OpenAIError" -> 503
                           [] last.gen = "None" -> 500
        /\ last.status = 200 => last.response = <<"ok">>

\* C6 witness: both the classifier and the retriever raised and the request was
\* answered 200.
C6_Witness ==
    /\ last.endpoint = ChatEndpoint
    /\ last.nlu = "<raises>"
    /\ last.nearest = 0
    /\ last.status = 200

\* C7 (as amended): requests are handled one at a time, so no update is lost:
\* every session's stored history is the turns of all the requests of that
\* session answered 200, in the order they were answered.
C7_NoLostUpdate ==
    \A sid \in DOMAIN CHAT_HISTORY_CACHE \cup {EffectiveSession(r) : r \in Requests} :
        StoredHistory(sid) =
            TurnsOfCalls(SelectSeq(answered, LAMBDA c : EffectiveSession(c.request) = sid))

\* C7 witness: two requests of one session were both answered 200.
C7_Witness ==
    /\ Len(answered) = 2
    /\ EffectiveSession(answered[1].request) = EffectiveSession(answered[2].request)

\* a request of a session that was answered before is answered 200 and leaves
\* that session with fewer turns than its answered requests appended
LostUpdateStep ==
    \E request \in Requests, nluOut \in NluOutcomes, nearest \in 0..Len(kb_texts),
       genOut \in GenOutcomes :
        /\ handle_chat("ready", request, nluOut, nearest, genOut)
        /\ last'.status = 200
        /\ \E i \in 1..Len(answered) :
               EffectiveSession(answered[i].request) = EffectiveSession(request)
        /\ Len(CHAT_HISTORY_CACHE'[EffectiveSession(request)])
               < 2 * Len(SelectSeq(answered',
                     LAMBDA c : EffectiveSession(c.request) = EffectiveSession(request)))

\* C7 (as stated): once a request of session S has been answered, a further
\* request of S can be answered 200 with S's history holding the turns of only
\* one of the two.
C7_UpdateCanBeLost ==
    (/\ inflight.ready > 0
     /\ answered # <<>>
     /\ TotalTurns(CHAT_HISTORY_CACHE) + 2 <= MaxTurns)
        => ENABLED LostUpdateStep

\* C8: a request without a session id uses the constant id "default_session":
\* answered 200, its two turns end that one bucket, and a later request without
\* a session id sees the two turns of every earlier answered one in its history.
C8_AnonymousShareBucket ==
    /\ (Handled /\ Anonymous(last.request)) =>
            \A i \in 1..Len(Earlier) :
                Anonymous(Earlier[i].request) =>
                    \E j \in 1..(Len(SeenHistory) - 1) :
                        SubSeq(SeenHistory, j, j + 1) = TurnsOfCall(Earlier[i])
    /\ (last.endpoint = ChatEndpoint /\ last.status = 200 /\ Anonymous(last.request)) =>
            LET h == StoredHistory("default_session")
            IN  /\ Len(h) >= 2
                /\ SubSeq(h, Len(h) - 1, Len(h)) = TurnsOfCall(answered[Len(answered)])

\* C8 witness: a request without a session id saw the turns of an earlier
\* answered request without a session id.
C8_Witness ==
    /\ Handled
    /\ Anonymous(last.request)
    /\ \E i \in 1..Len(Earlier) : Anonymous(Earlier[i].request)

\* C10: every stored history has even length and alternates user, assistant,
\* starting with user; a user turn holds a raw message and an assistant turn a
\* stripped reply, never the system turn or the annotated prompt turn.
C10_StoredTurnsAlternate ==
    \A sid \in DOMAIN CHAT_HISTORY_CACHE :
        LET h == CHAT_HISTORY_CACHE[sid]
        IN  /\ Len(h) % 2 = 0
            /\ \A i \in 1..Len(h) :
                IF i % 2 = 1
                THEN h[i].role = "user" /\ h[i].content \in ChatMessages
                ELSE /\ h[i].role = "assistant"
                     /\ h[i].content \in {Strip(g.content) : g \in GenOutcomes}

\* C10 witness: a session holds four turns after answered and failed requests.
C10_Witness ==
    /\ \E sid \in DOMAIN CHAT_HISTORY_CACHE : Len(CHAT_HISTORY_CACHE[sid]) = 4
    /\ last.status = 503

----------------------------------------------------------------------------
(* The keyword classifier, under NluSpec.                                  *)

\* the message holds the keyword as a word of its own
HasWord(message, word) ==
    \E i \in 1..Len(message) : Lower(Letters[message[i]]) = Kw(word)

\* the message holds "not really" as two words in a row
HasNotReally(message) ==
    \E i \in 1..(Len(message) - 2) :
        /\ Lower(Letters[message[i]]) = Kw("not")
        /\ message[i + 1] = " "
        /\ Lower(Letters[message[i + 2]]) = Kw("really")

\* the message holds the keyword anywhere
HasKeyword(message, word) == Contains(Kw(word), Lower(Chars(message)))

\* C9 (as stated): a message that holds a domain keyword and no affirmation or
\* denial word as a word gets the first domain label in the order work_stress,
\* study_anxiety, feeling_depressed.
C9_DomainKeywordLabel ==
    LET m == last.request.message
    IN  (/\ last.intent # ""
         /\ \A w \in {"yes", "ok", "sure", "no"} : ~HasWord(m, w)
         /\ ~HasNotReally(m)
         /\ \E w \in {"job", "deadline", "work", "exam", "study", "sad", "lonely"} :
                HasKeyword(m, w))
        => last.intent =
            IF \E w \in {"job", "deadline", "work"} : HasKeyword(m, w) THEN "work_stress"
            ELSE IF \E w \in {"exam", "study"} : HasKeyword(m, w) THEN "study_anxiety"
            ELSE "feeling_depressed"

====
